---- MODULE Spec2Model ----
(***************************************************************************)
(* ShimOptions::ShimOptions (AspNetCoreModuleV2/AspNetCore/ShimOptions.cpp) *)
(* as a state machine: one action per statement of the constructor, the    *)
(* configuration source and the OS environment as read-only state.         *)
(*                                                                         *)
(* Strings the constructor inspects (hosting model, environment values,    *)
(* the exception message) are sequences of one-character strings; strings  *)
(* it only copies (paths, arguments, handler version) are opaque.          *)
(* std::optional<T> is a sequence of length 0 (nullopt) or 1.              *)
(***************************************************************************)
EXTENDS Naturals, Sequences, FiniteSets

VARIABLES
    cfg,                          \* the ConfigurationSource handed to the constructor
    osEnv,                        \* the process environment
    pc,                           \* next statement of the constructor
    m_hostingModel,
    m_strHandlerVersion,
    m_strProcessPath,
    m_strArguments,
    m_fStdoutLogEnabled,
    m_struStdoutLogFile,
    m_fDisableStartupPage,
    m_fShowDetailedErrors,
    assigned,                     \* members that hold a determinate value
    detailedErrorsEnabled,        \* locals of lines 50-52
    aspnetCoreEnvironmentEnabled,
    dotnetEnvironmentEnabled,
    environmentVariables,         \* local of line 55 (optional: not yet declared = <<>>)
    exception,                    \* the exception in flight, if any
    options,                      \* the object the caller receives, if any
    reads                         \* configuration keys / environment names read so far

vars == << cfg, osEnv, pc, m_hostingModel, m_strHandlerVersion, m_strProcessPath,
           m_strArguments, m_fStdoutLogEnabled, m_struStdoutLogFile,
           m_fDisableStartupPage, m_fShowDetailedErrors, assigned,
           detailedErrorsEnabled, aspnetCoreEnvironmentEnabled,
           dotnetEnvironmentEnabled, environmentVariables, exception, options, reads >>

members == << m_hostingModel, m_strHandlerVersion, m_strProcessPath,
              m_strArguments, m_fStdoutLogEnabled, m_struStdoutLogFile,
              m_fDisableStartupPage, m_fShowDetailedErrors, assigned >>

locals == << detailedErrorsEnabled, aspnetCoreEnvironmentEnabled,
             dotnetEnvironmentEnabled, environmentVariables >>

----------------------------------------------------------------------------
(* Bounds *)

MaxPairs == 2

----------------------------------------------------------------------------
(* std::optional *)

nullopt == << >>

make_optional(v) == << v >>

has_value(o) == o # << >>

value_or(o, d) == IF o = << >> THEN d ELSE o[1]

Opt(S) == { nullopt } \cup { make_optional(v) : v \in S }

----------------------------------------------------------------------------
(* Character strings *)

LowerCase == <<"a","b","c","d","e","f","g","h","i","j","k","l","m",
               "n","o","p","q","r","s","t","u","v","w","x","y","z">>

UpperCase == <<"A","B","C","D","E","F","G","H","I","J","K","L","M",
               "N","O","P","Q","R","S","T","U","V","W","X","Y","Z">>

ToUpper(c) ==
    IF \E i \in 1..26 : LowerCase[i] = c
    THEN UpperCase[CHOOSE i \in 1..26 : LowerCase[i] = c]
    ELSE c

\* StringHelpers: CompareStringOrdinal(s1, s2, ignoreCase = true) == CSTR_EQUAL
equals_ignore_case(s1, s2) ==
    /\ Len(s1) = Len(s2)
    /\ \A i \in 1..Len(s1) : ToUpper(s1[i]) = ToUpper(s2[i])

\* StringHelpers: format(fmt, arg), swprintf semantics: the first %s directive
\* of fmt is replaced by arg (the only format used has a single directive)
format(fmt, arg) ==
    LET IsDirective(i) == fmt[i] = "%" /\ fmt[i + 1] = "s"
    IN IF \E i \in 1..(Len(fmt) - 1) : IsDirective(i)
       THEN LET i == CHOOSE j \in 1..(Len(fmt) - 1) :
                        /\ IsDirective(j)
                        /\ \A k \in 1..(j - 1) : ~ IsDirective(k)
            IN SubSeq(fmt, 1, i - 1) \o arg \o SubSeq(fmt, i + 2, Len(fmt))
       ELSE fmt

EmptyString == << >>

CS_ASPNETCORE_HOSTING_MODEL_INPROCESS == <<"i","n","p","r","o","c","e","s","s">>

CS_ASPNETCORE_HOSTING_MODEL_OUTOFPROCESS == <<"o","u","t","o","f","p","r","o","c","e","s","s">>

CS_ASPNETCORE_HANDLER_VERSION == "handlerVersion"

CS_ASPNETCORE_PROCESS_ARGUMENTS_DEFAULT == "<built-in default arguments>"

UnknownHostingModelFormat ==
    <<"U","n","k","n","o","w","n"," ","h","o","s","t","i","n","g"," ",
      "m","o","d","e","l"," ","'","%","s","'","."," ","P","l","e","a","s","e"," ",
      "s","p","e","c","i","f","y"," ","e","i","t","h","e","r"," ",
      "h","o","s","t","i","n","g","M","o","d","e","l","=","\"",
      "i","n","p","r","o","c","e","s","s","\""," ","o","r"," ",
      "h","o","s","t","i","n","g","M","o","d","e","l","=","\"",
      "o","u","t","o","f","p","r","o","c","e","s","s","\""," ","i","n"," ",
      "t","h","e"," ","w","e","b",".","c","o","n","f","i","g"," ",
      "f","i","l","e",".">>

StrOne == <<"1">>

StrTrue == <<"t","r","u","e">>

StrDevelopment == <<"D","e","v","e","l","o","p","m","e","n","t">>

----------------------------------------------------------------------------
(* Enumerations and names *)

HOSTING_UNKNOWN == "HOSTING_UNKNOWN"

HOSTING_IN_PROCESS == "HOSTING_IN_PROCESS"

HOSTING_OUT_PROCESS == "HOSTING_OUT_PROCESS"

ENV_DETAILEDERRORS == "ASPNETCORE_DETAILEDERRORS"

ENV_ASPNETCORE_ENVIRONMENT == "ASPNETCORE_ENVIRONMENT"

ENV_DOTNET_ENVIRONMENT == "DOTNET_ENVIRONMENT"

ProbedNames == { ENV_DETAILEDERRORS, ENV_ASPNETCORE_ENVIRONMENT, ENV_DOTNET_ENVIRONMENT }

AllMembers == { "m_hostingModel", "m_strHandlerVersion", "m_strProcessPath",
                "m_strArguments", "m_fStdoutLogEnabled", "m_struStdoutLogFile",
                "m_fDisableStartupPage", "m_fShowDetailedErrors" }

----------------------------------------------------------------------------
(* ConfigurationSource / ConfigurationSection / Environment read operations *)

\* ConfigurationSection::GetString
GetString(section, key) == section[key]

\* ConfigurationSection::GetRequiredString (body outside this file): throws for
\* a value that is missing or empty. Line 40 stores the result unchecked and
\* the data model requires a non-empty processPath, so the getter is what
\* rejects the empty string.
RequiredStringThrows(section, key) ==
    \/ ~ has_value(section[key])
    \/ section[key][1] = ""

\* ConfigurationSection::GetBool: the attribute parsed as a boolean
GetBool(section, key) ==
    IF ~ has_value(section[key]) THEN nullopt
    ELSE IF section[key][1] = "true" THEN make_optional(TRUE)
    ELSE IF section[key][1] = "false" THEN make_optional(FALSE)
    ELSE nullopt

\* ConfigurationSection::GetRequiredBool: a missing or unparseable value throws
RequiredBoolThrows(section, key) == ~ has_value(GetBool(section, key))

\* find_element(pairs, name): the value of the first pair whose key is name
find_element(pairs, name) ==
    IF \E i \in 1..Len(pairs) : pairs[i][1] = name
    THEN LET i == CHOOSE j \in 1..Len(pairs) :
                     /\ pairs[j][1] = name
                     /\ \A k \in 1..(j - 1) : pairs[k][1] # name
         IN make_optional(pairs[i][2])
    ELSE nullopt

\* Environment::GetEnvironmentVariableValue
GetEnvironmentVariableValue(name) == osEnv[name]

\* operator[] written as an assignment: the looked-up entry is reset
MapAfterLookup_Overwrite(map, key) ==
    [ k \in (DOMAIN map) \cup { key } |-> IF k = key THEN << >> ELSE map[k] ]

\* std::map::operator[] : the map after the lookup (a missing key is inserted
\* with a value-initialised, i.e. empty, string)
MapAfterLookup(map, key) ==
    IF key \in DOMAIN map THEN map
    ELSE [ k \in (DOMAIN map) \cup { key } |-> IF k = key THEN EmptyString ELSE map[k] ]

\* std::map::operator[] : the value the lookup yields
MapLookup(map, key) == MapAfterLookup(map, key)[key]

RequiredException(key) ==
    [ type |-> "ConfigurationLoadException", key |-> key, message |-> << >> ]

----------------------------------------------------------------------------
(* Pure parts of the constructor *)

\* the comparisons made case-sensitive
HostingModelOf_CaseSensitive(hostingModel) ==
    IF hostingModel = << >> \/ hostingModel = <<"o","u","t","o","f","p","r","o","c","e","s","s">>
    THEN "HOSTING_OUT_PROCESS"
    ELSE IF hostingModel = <<"i","n","p","r","o","c","e","s","s">>
         THEN "HOSTING_IN_PROCESS"
         ELSE "HOSTING_UNKNOWN"

\* lines 19-32: the hosting model a string selects (HOSTING_UNKNOWN: the throw branch)
HostingModelOf(hostingModel) ==
    IF hostingModel = EmptyString
       \/ equals_ignore_case(hostingModel, CS_ASPNETCORE_HOSTING_MODEL_OUTOFPROCESS)
    THEN HOSTING_OUT_PROCESS
    ELSE IF equals_ignore_case(hostingModel, CS_ASPNETCORE_HOSTING_MODEL_INPROCESS)
         THEN HOSTING_IN_PROCESS
         ELSE HOSTING_UNKNOWN

\* the message without its argument
UnknownHostingModelMessage_NoValue(hostingModel) ==
    format(<<"U","n","k","n","o","w","n"," ","h","o","s","t","i","n","g"," ",
             "m","o","d","e","l",".">>, hostingModel)

\* lines 29-31
UnknownHostingModelMessage(hostingModel) ==
    format(UnknownHostingModelFormat, hostingModel)

\* the handler settings read whatever the hosting model
HandlerVersionOf_Unconditional(section, model, current) ==
    value_or(find_element(section.handlerSettings, "handlerVersion"), "")

\* lines 34-38
HandlerVersionOf(section, model, current) ==
    IF model = HOSTING_OUT_PROCESS
    THEN value_or(find_element(section.handlerSettings, CS_ASPNETCORE_HANDLER_VERSION), "")
    ELSE current

\* an empty arguments attribute treated like a missing one
ArgumentsOf_EmptyIsAbsent(section) ==
    IF section["arguments"] = << >> \/ section["arguments"] = << "" >>
    THEN "<built-in default arguments>"
    ELSE section["arguments"][1]

\* line 41
ArgumentsOf(section) ==
    value_or(GetString(section, "arguments"), CS_ASPNETCORE_PROCESS_ARGUMENTS_DEFAULT)

\* lines 50 and 63
DetailedErrorsMatch(v) ==
    equals_ignore_case(StrOne, v) \/ equals_ignore_case(StrTrue, v)

\* lines 51-52 and 64-65
DevelopmentMatch(v) == equals_ignore_case(StrDevelopment, v)

\* the third signal dropped from the disjunction
ShowDetailedErrorsOf_TwoSignals(d, a, n) == d \/ a

\* line 67
ShowDetailedErrorsOf(d, a, n) == d \/ a \/ n

----------------------------------------------------------------------------
(* Inputs *)

S_InProcess == <<"I","n","P","r","o","c","e","s","s">>

S_inprocess == <<"i","n","p","r","o","c","e","s","s">>

S_OUTOFPROCESS == <<"O","U","T","O","F","P","R","O","C","E","S","S">>

S_OutOfProcess == <<"O","u","t","O","f","P","r","o","c","e","s","s">>

S_foo == <<"f","o","o">>

S_inproc == <<"i","n","p","r","o","c">>

S_TRUE == <<"T","R","U","E">>

S_True == <<"T","r","u","e">>

S_zero == <<"0">>

S_yes == <<"y","e","s">>

S_development == <<"d","e","v","e","l","o","p","m","e","n","t">>

S_DEVELOPMENT == <<"D","E","V","E","L","O","P","M","E","N","T">>

S_Staging == <<"S","t","a","g","i","n","g">>

S_x == <<"x">>

ENV_OTHER == "OTHER_VARIABLE"

\* handler settings: at most MaxPairs pairs with distinct keys
HandlerKeys == { CS_ASPNETCORE_HANDLER_VERSION, "other", "another" }

HandlerValues(k) == IF k = CS_ASPNETCORE_HANDLER_VERSION THEN { "1.0", "2.1" } ELSE { "x" }

HandlerSettingsInputs ==
    { p \in UNION { [ 1..n -> HandlerKeys \X { "1.0", "2.1", "x" } ] : n \in 0..MaxPairs } :
        /\ \A i \in 1..Len(p) : p[i][2] \in HandlerValues(p[i][1])
        /\ \A i, j \in 1..Len(p) : i # j => p[i][1] # p[j][1] }

\* a map from the given per-key optional values: absent keys are left out
MapOf(d, a, n, o) ==
    LET f == [ k \in ProbedNames \cup { ENV_OTHER } |->
                 IF k = ENV_DETAILEDERRORS THEN d
                 ELSE IF k = ENV_ASPNETCORE_ENVIRONMENT THEN a
                 ELSE IF k = ENV_DOTNET_ENVIRONMENT THEN n ELSE o ]
        D == { k \in DOMAIN f : has_value(f[k]) }
    IN [ k \in D |-> f[k][1] ]

EnvOf(d, a, n) ==
    [ k \in ProbedNames |->
        IF k = ENV_DETAILEDERRORS THEN d
        ELSE IF k = ENV_ASPNETCORE_ENVIRONMENT THEN a ELSE n ]

NoSection ==
    [ hasSection |-> FALSE, hostingModel |-> nullopt, handlerSettings |-> << >>,
      processPath |-> nullopt, arguments |-> nullopt, stdoutLogEnabled |-> nullopt,
      stdoutLogFile |-> nullopt, disableStartupErrorPage |-> nullopt,
      environmentVariables |-> << >> ]

\* every combination of the configuration keys, with few environments
ConfigSweep ==
    { NoSection } \cup
    [ hasSection : { TRUE },
      hostingModel : Opt({ EmptyString, S_InProcess, S_OUTOFPROCESS, S_foo, S_inproc }),
      handlerSettings : HandlerSettingsInputs,
      processPath : Opt({ "", "dotnet" }),
      arguments : Opt({ "", "app.dll" }),
      stdoutLogEnabled : Opt({ "true", "false", "bogus" }),
      stdoutLogFile : Opt({ "", "log.txt" }),
      disableStartupErrorPage : Opt({ "false", "bogus" }),
      environmentVariables :
          { MapOf(nullopt, nullopt, nullopt, nullopt),
            MapOf(nullopt, nullopt, make_optional(S_development), make_optional(S_x)) } ]

ConfigSweepEnv ==
    { EnvOf(nullopt, make_optional(S_Staging), nullopt) }

\* every combination of the six detailed-error sources, with a valid section
EnvSweepConfig ==
    [ hasSection : { TRUE },
      hostingModel : { make_optional(S_inprocess), make_optional(S_OutOfProcess) },
      handlerSettings : { << <<CS_ASPNETCORE_HANDLER_VERSION, "2.1">> >> },
      processPath : { make_optional("dotnet") },
      arguments : { nullopt },
      stdoutLogEnabled : { make_optional("true") },
      stdoutLogFile : { make_optional("log.txt") },
      disableStartupErrorPage : { make_optional("true") },
      environmentVariables :
          { MapOf(d, a, n, o) :
              d \in Opt({ S_True, S_zero }),
              a \in Opt({ StrDevelopment, S_Staging }),
              n \in Opt({ S_development }),
              o \in Opt({ StrDevelopment }) } ]

EnvSweepEnv ==
    { EnvOf(d, a, n) :
        d \in Opt({ StrOne, S_TRUE, S_yes }),
        a \in Opt({ S_development, S_Staging }),
        n \in Opt({ S_DEVELOPMENT, EmptyString }) }

----------------------------------------------------------------------------
(* The constructor *)

Init ==
    /\ \/ cfg \in ConfigSweep /\ osEnv \in ConfigSweepEnv
       \/ cfg \in EnvSweepConfig /\ osEnv \in EnvSweepEnv
    /\ pc = "GetRequiredSection"
    \* member initialiser list, lines 13-14; strings are default-constructed
    /\ m_hostingModel = HOSTING_UNKNOWN
    /\ m_fStdoutLogEnabled = FALSE
    /\ m_strHandlerVersion = ""
    /\ m_strProcessPath = ""
    /\ m_strArguments = ""
    /\ m_struStdoutLogFile = ""
    \* the two booleans below are indeterminate until assigned (never read before)
    /\ m_fDisableStartupPage = FALSE
    /\ m_fShowDetailedErrors = FALSE
    /\ assigned = AllMembers \ { "m_fDisableStartupPage", "m_fShowDetailedErrors" }
    /\ detailedErrorsEnabled = FALSE
    /\ aspnetCoreEnvironmentEnabled = FALSE
    /\ dotnetEnvironmentEnabled = FALSE
    /\ environmentVariables = nullopt
    /\ exception = nullopt
    /\ options = nullopt
    /\ reads = << >>

Throw(e) ==
    /\ pc' = "failed"
    /\ exception' = make_optional(e)

Goto(l) ==
    /\ pc' = l
    /\ exception' = exception

\* line 16
GetRequiredSection ==
    /\ pc = "GetRequiredSection"
    /\ reads' = Append(reads, "section")
    /\ IF cfg.hasSection THEN Goto("HostingModel") ELSE Throw(RequiredException("section"))
    /\ UNCHANGED << cfg, osEnv, members, locals, options >>

\* the else branch without its throw: the member keeps HOSTING_UNKNOWN
ReadHostingModel_NoThrow ==
    /\ pc = "HostingModel"
    /\ reads' = Append(reads, "hostingModel")
    /\ m_hostingModel' = HostingModelOf(value_or(GetString(cfg, "hostingModel"), EmptyString))
    /\ Goto("HandlerSettings")
    /\ UNCHANGED << cfg, osEnv, m_strHandlerVersion, m_strProcessPath, m_strArguments,
                    m_fStdoutLogEnabled, m_struStdoutLogFile, m_fDisableStartupPage,
                    m_fShowDetailedErrors, assigned, locals, options >>

\* lines 17-32
ReadHostingModel ==
    /\ pc = "HostingModel"
    /\ reads' = Append(reads, "hostingModel")
    /\ LET hostingModel == value_or(GetString(cfg, "hostingModel"), EmptyString)
           model == HostingModelOf(hostingModel)
       IN IF model # HOSTING_UNKNOWN
          THEN /\ m_hostingModel' = model
               /\ Goto("HandlerSettings")
          ELSE /\ m_hostingModel' = m_hostingModel
               /\ Throw([ type |-> "ConfigurationLoadException", key |-> "hostingModel",
                          message |-> UnknownHostingModelMessage(hostingModel) ])
    /\ UNCHANGED << cfg, osEnv, m_strHandlerVersion, m_strProcessPath, m_strArguments,
                    m_fStdoutLogEnabled, m_struStdoutLogFile, m_fDisableStartupPage,
                    m_fShowDetailedErrors, assigned, locals, options >>

\* lines 34-38
ReadHandlerSettings ==
    /\ pc = "HandlerSettings"
    /\ reads' = IF m_hostingModel = HOSTING_OUT_PROCESS
                THEN Append(reads, "handlerSettings") ELSE reads
    /\ m_strHandlerVersion' = HandlerVersionOf(cfg, m_hostingModel, m_strHandlerVersion)
    /\ Goto("ProcessPath")
    /\ UNCHANGED << cfg, osEnv, m_hostingModel, m_strProcessPath, m_strArguments,
                    m_fStdoutLogEnabled, m_struStdoutLogFile, m_fDisableStartupPage,
                    m_fShowDetailedErrors, assigned, locals, options >>

\* the path read with GetString(...).value_or(L"") instead of GetRequiredString
ReadProcessPath_OptionalString ==
    /\ pc = "ProcessPath"
    /\ reads' = Append(reads, "processPath")
    /\ Goto("Arguments")
    /\ m_strProcessPath' = value_or(GetString(cfg, "processPath"), "")
    /\ UNCHANGED << cfg, osEnv, m_hostingModel, m_strHandlerVersion, m_strArguments,
                    m_fStdoutLogEnabled, m_struStdoutLogFile, m_fDisableStartupPage,
                    m_fShowDetailedErrors, assigned, locals, options >>

\* line 40
ReadProcessPath ==
    /\ pc = "ProcessPath"
    /\ reads' = Append(reads, "processPath")
    /\ IF RequiredStringThrows(cfg, "processPath")
       THEN /\ Throw(RequiredException("processPath"))
            /\ m_strProcessPath' = m_strProcessPath
       ELSE /\ Goto("Arguments")
            /\ m_strProcessPath' = cfg.processPath[1]
    /\ UNCHANGED << cfg, osEnv, m_hostingModel, m_strHandlerVersion, m_strArguments,
                    m_fStdoutLogEnabled, m_struStdoutLogFile, m_fDisableStartupPage,
                    m_fShowDetailedErrors, assigned, locals, options >>

\* the arguments read with GetRequiredString
ReadArguments_Required ==
    /\ pc = "Arguments"
    /\ reads' = Append(reads, "arguments")
    /\ IF RequiredStringThrows(cfg, "arguments")
       THEN /\ Throw(RequiredException("arguments"))
            /\ m_strArguments' = m_strArguments
       ELSE /\ Goto("StdoutLogEnabled")
            /\ m_strArguments' = cfg.arguments[1]
    /\ UNCHANGED << cfg, osEnv, m_hostingModel, m_strHandlerVersion, m_strProcessPath,
                    m_fStdoutLogEnabled, m_struStdoutLogFile, m_fDisableStartupPage,
                    m_fShowDetailedErrors, assigned, locals, options >>

\* line 41
ReadArguments ==
    /\ pc = "Arguments"
    /\ reads' = Append(reads, "arguments")
    /\ m_strArguments' = ArgumentsOf(cfg)
    /\ Goto("StdoutLogEnabled")
    /\ UNCHANGED << cfg, osEnv, m_hostingModel, m_strHandlerVersion, m_strProcessPath,
                    m_fStdoutLogEnabled, m_struStdoutLogFile, m_fDisableStartupPage,
                    m_fShowDetailedErrors, assigned, locals, options >>

\* the flag read with GetBool(...).value_or(false): an invalid value goes unreported
ReadStdoutLogEnabled_Lenient ==
    /\ pc = "StdoutLogEnabled"
    /\ reads' = Append(reads, "stdoutLogEnabled")
    /\ Goto("StdoutLogFile")
    /\ m_fStdoutLogEnabled' = value_or(GetBool(cfg, "stdoutLogEnabled"), FALSE)
    /\ UNCHANGED << cfg, osEnv, m_hostingModel, m_strHandlerVersion, m_strProcessPath,
                    m_strArguments, m_struStdoutLogFile, m_fDisableStartupPage,
                    m_fShowDetailedErrors, assigned, locals, options >>

\* line 42
ReadStdoutLogEnabled ==
    /\ pc = "StdoutLogEnabled"
    /\ reads' = Append(reads, "stdoutLogEnabled")
    /\ IF RequiredBoolThrows(cfg, "stdoutLogEnabled")
       THEN /\ Throw(RequiredException("stdoutLogEnabled"))
            /\ m_fStdoutLogEnabled' = m_fStdoutLogEnabled
       ELSE /\ Goto("StdoutLogFile")
            /\ m_fStdoutLogEnabled' = GetBool(cfg, "stdoutLogEnabled")[1]
    /\ UNCHANGED << cfg, osEnv, m_hostingModel, m_strHandlerVersion, m_strProcessPath,
                    m_strArguments, m_struStdoutLogFile, m_fDisableStartupPage,
                    m_fShowDetailedErrors, assigned, locals, options >>

\* line 43
ReadStdoutLogFile ==
    /\ pc = "StdoutLogFile"
    /\ reads' = Append(reads, "stdoutLogFile")
    /\ IF RequiredStringThrows(cfg, "stdoutLogFile")
       THEN /\ Throw(RequiredException("stdoutLogFile"))
            /\ m_struStdoutLogFile' = m_struStdoutLogFile
       ELSE /\ Goto("DisableStartupPage")
            /\ m_struStdoutLogFile' = cfg.stdoutLogFile[1]
    /\ UNCHANGED << cfg, osEnv, m_hostingModel, m_strHandlerVersion, m_strProcessPath,
                    m_strArguments, m_fStdoutLogEnabled, m_fDisableStartupPage,
                    m_fShowDetailedErrors, assigned, locals, options >>

\* line 44
ReadDisableStartupPage ==
    /\ pc = "DisableStartupPage"
    /\ reads' = Append(reads, "disableStartupErrorPage")
    /\ IF RequiredBoolThrows(cfg, "disableStartupErrorPage")
       THEN /\ Throw(RequiredException("disableStartupErrorPage"))
            /\ UNCHANGED << m_fDisableStartupPage, assigned >>
       ELSE /\ Goto("Environment")
            /\ m_fDisableStartupPage' = GetBool(cfg, "disableStartupErrorPage")[1]
            /\ assigned' = assigned \cup { "m_fDisableStartupPage" }
    /\ UNCHANGED << cfg, osEnv, m_hostingModel, m_strHandlerVersion, m_strProcessPath,
                    m_strArguments, m_fStdoutLogEnabled, m_struStdoutLogFile,
                    m_fShowDetailedErrors, locals, options >>

\* lines 46-52
ReadEnvironment ==
    /\ pc = "Environment"
    /\ reads' = reads \o << "env:ASPNETCORE_DETAILEDERRORS", "env:ASPNETCORE_ENVIRONMENT",
                            "env:DOTNET_ENVIRONMENT" >>
    /\ LET detailedErrors ==
               value_or(GetEnvironmentVariableValue(ENV_DETAILEDERRORS), EmptyString)
           aspnetCoreEnvironment ==
               value_or(GetEnvironmentVariableValue(ENV_ASPNETCORE_ENVIRONMENT), EmptyString)
           dotnetEnvironment ==
               value_or(GetEnvironmentVariableValue(ENV_DOTNET_ENVIRONMENT), EmptyString)
       IN /\ detailedErrorsEnabled' = DetailedErrorsMatch(detailedErrors)
          /\ aspnetCoreEnvironmentEnabled' = DevelopmentMatch(aspnetCoreEnvironment)
          /\ dotnetEnvironmentEnabled' = DevelopmentMatch(dotnetEnvironment)
    /\ Goto("GetMap")
    /\ UNCHANGED << cfg, osEnv, members, environmentVariables, options >>

\* line 55: the map is copied into a local
GetMap ==
    /\ pc = "GetMap"
    /\ reads' = Append(reads, "environmentVariables")
    /\ environmentVariables' = make_optional(cfg.environmentVariables)
    /\ Goto("DetailedErrors")
    /\ UNCHANGED << cfg, osEnv, members, detailedErrorsEnabled,
                    aspnetCoreEnvironmentEnabled, dotnetEnvironmentEnabled, options >>

\* lines 58-67
DeriveShowDetailedErrors ==
    /\ pc = "DetailedErrors"
    /\ LET map0 == environmentVariables[1]
           detailedErrorsFromWebConfig == MapLookup(map0, ENV_DETAILEDERRORS)
           map1 == MapAfterLookup(map0, ENV_DETAILEDERRORS)
           aspnetCoreEnvironmentFromWebConfig == MapLookup(map1, ENV_ASPNETCORE_ENVIRONMENT)
           map2 == MapAfterLookup(map1, ENV_ASPNETCORE_ENVIRONMENT)
           dotnetEnvironmentFromWebConfig == MapLookup(map2, ENV_DOTNET_ENVIRONMENT)
           map3 == MapAfterLookup(map2, ENV_DOTNET_ENVIRONMENT)
           d == detailedErrorsEnabled \/ DetailedErrorsMatch(detailedErrorsFromWebConfig)
           a == aspnetCoreEnvironmentEnabled
                    \/ DevelopmentMatch(aspnetCoreEnvironmentFromWebConfig)
           n == dotnetEnvironmentEnabled \/ DevelopmentMatch(dotnetEnvironmentFromWebConfig)
       IN /\ environmentVariables' = make_optional(map3)
          /\ detailedErrorsEnabled' = d
          /\ aspnetCoreEnvironmentEnabled' = a
          /\ dotnetEnvironmentEnabled' = n
          /\ m_fShowDetailedErrors' = ShowDetailedErrorsOf(d, a, n)
    /\ assigned' = assigned \cup { "m_fShowDetailedErrors" }
    /\ Goto("Return")
    /\ UNCHANGED << cfg, osEnv, m_hostingModel, m_strHandlerVersion, m_strProcessPath,
                    m_strArguments, m_fStdoutLogEnabled, m_struStdoutLogFile,
                    m_fDisableStartupPage, options, reads >>

\* line 68: the constructor returns and the caller holds the object
Return ==
    /\ pc = "Return"
    /\ options' = make_optional(
           [ hostingModel |-> m_hostingModel,
             handlerVersion |-> m_strHandlerVersion,
             processPath |-> m_strProcessPath,
             arguments |-> m_strArguments,
             stdoutLogEnabled |-> m_fStdoutLogEnabled,
             stdoutLogFile |-> m_struStdoutLogFile,
             disableStartupErrorPage |-> m_fDisableStartupPage,
             showDetailedErrors |-> m_fShowDetailedErrors,
             determinate |-> assigned ])
    /\ Goto("done")
    /\ UNCHANGED << cfg, osEnv, members, locals, reads >>

Next ==
    \/ GetRequiredSection
    \/ ReadHostingModel
    \/ ReadHandlerSettings
    \/ ReadProcessPath
    \/ ReadArguments
    \/ ReadStdoutLogEnabled
    \/ ReadStdoutLogFile
    \/ ReadDisableStartupPage
    \/ ReadEnvironment
    \/ GetMap
    \/ DeriveShowDetailedErrors
    \/ Return

Spec == Init /\ [][Next]_vars

TypeOK ==
    /\ pc \in { "GetRequiredSection", "HostingModel", "HandlerSettings", "ProcessPath",
                "Arguments", "StdoutLogEnabled", "StdoutLogFile", "DisableStartupPage",
                "Environment", "GetMap", "DetailedErrors", "Return", "done", "failed" }
    /\ m_hostingModel \in { HOSTING_UNKNOWN, HOSTING_IN_PROCESS, HOSTING_OUT_PROCESS }
    /\ m_fStdoutLogEnabled \in BOOLEAN
    /\ m_fDisableStartupPage \in BOOLEAN
    /\ m_fShowDetailedErrors \in BOOLEAN
    /\ assigned \subseteq AllMembers
    /\ (pc = "failed") = has_value(exception)

----------------------------------------------------------------------------
(* Vocabulary of the properties, stated on the inputs cfg and osEnv *)

Terminated == pc \in { "done", "failed" }

\* the two letter cases of a character
BothCases(c) ==
    { c } \cup { LowerCase[i] : i \in { j \in 1..26 : UpperCase[j] = c } }
          \cup { UpperCase[i] : i \in { j \in 1..26 : LowerCase[j] = c } }

\* v is word written in some mix of letter cases
IsSpellingOf(v, word) ==
    /\ Len(v) = Len(word)
    /\ \A i \in 1..Len(word) : v[i] \in BothCases(word[i])

Contains(s, sub) ==
    \E i \in 1..(Len(s) + 1 - Len(sub)) : SubSeq(s, i, i + Len(sub) - 1) = sub

IsPrefix(p, q) == Len(p) <= Len(q) /\ SubSeq(q, 1, Len(p)) = p

WordInProcess == <<"i","n","p","r","o","c","e","s","s">>

WordOutOfProcess == <<"o","u","t","o","f","p","r","o","c","e","s","s">>

WordDevelopment == <<"d","e","v","e","l","o","p","m","e","n","t">>

\* the configured hosting-model string, a missing one being the empty string
ConfiguredHostingModel == IF cfg.hostingModel = << >> THEN << >> ELSE cfg.hostingModel[1]

SelectsOutOfProcess ==
    ConfiguredHostingModel = << >> \/ IsSpellingOf(ConfiguredHostingModel, WordOutOfProcess)

SelectsInProcess == IsSpellingOf(ConfiguredHostingModel, WordInProcess)

UnknownHostingModel == ~ SelectsOutOfProcess /\ ~ SelectsInProcess

Absent(key) == cfg[key] = << >>

AbsentOrEmpty(key) == cfg[key] = << >> \/ cfg[key] = << "" >>

NotABoolean(key) == cfg[key] = << >> \/ cfg[key][1] \notin { "true", "false" }

\* a variable's value in each of the two sources, a missing one being the empty string
FromOsEnvironment(name) == IF osEnv[name] = << >> THEN << >> ELSE osEnv[name][1]

FromConfiguredMap(name) ==
    IF name \in DOMAIN cfg.environmentVariables
    THEN cfg.environmentVariables[name] ELSE << >>

EnablesDetailedErrors(v) == IsSpellingOf(v, <<"1">>) \/ IsSpellingOf(v, <<"t","r","u","e">>)

NamesDevelopment(v) == IsSpellingOf(v, WordDevelopment)

SixChecks ==
    \/ EnablesDetailedErrors(FromOsEnvironment("ASPNETCORE_DETAILEDERRORS"))
    \/ EnablesDetailedErrors(FromConfiguredMap("ASPNETCORE_DETAILEDERRORS"))
    \/ NamesDevelopment(FromOsEnvironment("ASPNETCORE_ENVIRONMENT"))
    \/ NamesDevelopment(FromConfiguredMap("ASPNETCORE_ENVIRONMENT"))
    \/ NamesDevelopment(FromOsEnvironment("DOTNET_ENVIRONMENT"))
    \/ NamesDevelopment(FromConfiguredMap("DOTNET_ENVIRONMENT"))

HasHandlerVersion ==
    \E i \in 1..Len(cfg.handlerSettings) : cfg.handlerSettings[i][1] = "handlerVersion"

ConfiguredHandlerVersion ==
    cfg.handlerSettings[CHOOSE i \in 1..Len(cfg.handlerSettings) :
                            cfg.handlerSettings[i][1] = "handlerVersion"][2]

\* the required items other than the hosting model are all valid
OtherRequiredFieldsValid ==
    /\ cfg.hasSection
    /\ ~ AbsentOrEmpty("processPath")
    /\ ~ NotABoolean("stdoutLogEnabled")
    /\ ~ AbsentOrEmpty("stdoutLogFile")
    /\ ~ NotABoolean("disableStartupErrorPage")

----------------------------------------------------------------------------
(* Properties *)

\* C1: a resolved options value shows detailed errors exactly when one of the
\* six checks matches: ASPNETCORE_DETAILEDERRORS is "1" or "true",
\* ASPNETCORE_ENVIRONMENT is "Development", DOTNET_ENVIRONMENT is "Development"
\* (any letter case), in the OS environment or in the configured map; a missing
\* variable counts as the empty string.
C1_ShowDetailedErrorsIffSixChecks ==
    pc = "done" => (options[1].showDetailedErrors <=> SixChecks)

\* only the configured map's ASPNETCORE_DETAILEDERRORS matches, and the other
\* five sources hold non-matching values or nothing
C1_Witness ==
    /\ pc = "done"
    /\ options[1].showDetailedErrors
    /\ EnablesDetailedErrors(FromConfiguredMap("ASPNETCORE_DETAILEDERRORS"))
    /\ FromOsEnvironment("ASPNETCORE_DETAILEDERRORS") = <<"y","e","s">>
    /\ FromOsEnvironment("ASPNETCORE_ENVIRONMENT") = <<"S","t","a","g","i","n","g">>
    /\ FromConfiguredMap("ASPNETCORE_ENVIRONMENT") = <<"S","t","a","g","i","n","g">>
    /\ ~ NamesDevelopment(FromOsEnvironment("DOTNET_ENVIRONMENT"))
    /\ ~ NamesDevelopment(FromConfiguredMap("DOTNET_ENVIRONMENT"))

\* C2: when the other required fields are valid, a hosting-model string that
\* is absent, empty or a spelling of "outofprocess" resolves to OutOfProcess,
\* and a spelling of "inprocess" resolves to InProcess.
C2_HostingModelSelection ==
    (Terminated /\ OtherRequiredFieldsValid) =>
        /\ SelectsOutOfProcess =>
               pc = "done" /\ options[1].hostingModel = "HOSTING_OUT_PROCESS"
        /\ SelectsInProcess =>
               pc = "done" /\ options[1].hostingModel = "HOSTING_IN_PROCESS"

C2_Witness ==
    /\ pc = "done"
    /\ cfg.hostingModel = << <<"O","U","T","O","F","P","R","O","C","E","S","S">> >>
    /\ options[1].hostingModel = "HOSTING_OUT_PROCESS"

\* C3: a non-empty hosting-model string that is a spelling of neither
\* "outofprocess" nor "inprocess" makes resolution fail with the configuration
\* error whose message contains the offending value and both valid spellings.
C3_UnknownHostingModelRejected ==
    (Terminated /\ cfg.hasSection /\ UnknownHostingModel) =>
        /\ pc = "failed"
        /\ options = << >>
        /\ exception[1].type = "ConfigurationLoadException"
        /\ Contains(exception[1].message, ConfiguredHostingModel)
        /\ Contains(exception[1].message, WordInProcess)
        /\ Contains(exception[1].message, WordOutOfProcess)

C3_Witness ==
    /\ pc = "failed"
    /\ cfg.hostingModel = << <<"f","o","o">> >>
    /\ Contains(exception[1].message, <<"'","f","o","o","'">>)

\* C4: a resolved InProcess value has the empty handler version and the
\* handler settings were not read; a resolved OutOfProcess value has the value
\* of the "handlerVersion" key of the handler settings, or the empty string
\* when that key is missing.
C4_HandlerVersion ==
    pc = "done" =>
        /\ options[1].hostingModel = "HOSTING_IN_PROCESS" =>
               /\ options[1].handlerVersion = ""
               /\ \A i \in 1..Len(reads) : reads[i] # "handlerSettings"
        /\ options[1].hostingModel = "HOSTING_OUT_PROCESS" =>
               options[1].handlerVersion =
                   IF HasHandlerVersion THEN ConfiguredHandlerVersion ELSE ""

C4_Witness ==
    /\ pc = "done"
    /\ options[1].hostingModel = "HOSTING_IN_PROCESS"
    /\ HasHandlerVersion
    /\ options[1].handlerVersion = ""

C6_Arguments ==
    pc = "done" =>
        options[1].arguments =
            IF Absent("arguments") THEN CS_ASPNETCORE_PROCESS_ARGUMENTS_DEFAULT
            ELSE cfg.arguments[1]

C6_Witness ==
    /\ pc = "done"
    /\ cfg.arguments = << "" >>
    /\ options[1].arguments = ""

C8_Atomic ==
    /\ pc # "done" => options = << >>
    /\ options # << >> =>
           /\ options[1].hostingModel \in { "HOSTING_OUT_PROCESS", "HOSTING_IN_PROCESS" }
           /\ options[1].determinate = AllMembers

\* a failure after some members were assigned and others not
C8_Witness ==
    /\ pc = "failed"
    /\ m_hostingModel = "HOSTING_IN_PROCESS"
    /\ m_strProcessPath = "dotnet"
    /\ assigned # AllMembers
    /\ options = << >>

\* C9: no step changes the configuration source or the OS environment; the
\* constructor's copy of the configured map keeps every entry it had and only
\* gains empty entries for the three probed names; the resolved flag is the
\* one the entries of the configured map give.
C9_Frame ==
    [][ /\ cfg' = cfg
        /\ osEnv' = osEnv
        /\ environmentVariables' # << >> =>
              LET before == IF environmentVariables = << >>
                            THEN cfg.environmentVariables ELSE environmentVariables[1]
                  after == environmentVariables'[1]
              IN /\ \A k \in DOMAIN before : k \in DOMAIN after /\ after[k] = before[k]
                 /\ \A k \in (DOMAIN after) \ (DOMAIN before) :
                        k \in ProbedNames /\ after[k] = << >>
        /\ pc' = "done" => (options'[1].showDetailedErrors <=> SixChecks)
      ]_vars

\* the probes inserted entries next to entries that were configured
C9_Witness ==
    /\ pc = "done"
    /\ DOMAIN cfg.environmentVariables = { "DOTNET_ENVIRONMENT", "OTHER_VARIABLE" }
    /\ DOMAIN environmentVariables[1] = ProbedNames \cup { "OTHER_VARIABLE" }
    /\ environmentVariables[1]["ASPNETCORE_ENVIRONMENT"] = << >>
    /\ environmentVariables[1]["DOTNET_ENVIRONMENT"] = cfg.environmentVariables["DOTNET_ENVIRONMENT"]

\* the order in which a run that meets no failure reads its inputs
ReadOrder ==
    << "section", "hostingModel" >>
    \o (IF SelectsOutOfProcess THEN << "handlerSettings" >> ELSE << >>)
    \o << "processPath", "arguments", "stdoutLogEnabled", "stdoutLogFile",
          "disableStartupErrorPage", "env:ASPNETCORE_DETAILEDERRORS",
          "env:ASPNETCORE_ENVIRONMENT", "env:DOTNET_ENVIRONMENT", "environmentVariables" >>

InvalidItem(item) ==
    IF item = "section" THEN ~ cfg.hasSection
    ELSE IF item = "hostingModel" THEN UnknownHostingModel
    ELSE IF item = "processPath" THEN AbsentOrEmpty("processPath")
    ELSE IF item = "stdoutLogEnabled" THEN NotABoolean("stdoutLogEnabled")
    ELSE IF item = "stdoutLogFile" THEN AbsentOrEmpty("stdoutLogFile")
    ELSE IF item = "disableStartupErrorPage" THEN NotABoolean("disableStartupErrorPage")
    ELSE FALSE

\* C10: the inputs are read in the fixed order; a failure is the one of the
\* earliest invalid item of that order, and nothing after that item is read.
C10_FirstFailureWins ==
    /\ IsPrefix(reads, ReadOrder)
    /\ pc = "failed" =>
           /\ reads # << >>
           /\ exception[1].key = reads[Len(reads)]
           /\ InvalidItem(reads[Len(reads)])
           /\ \A i \in 1..(Len(reads) - 1) : ~ InvalidItem(reads[i])
    /\ pc = "done" => reads = ReadOrder

\* an unknown hosting model is reported although processPath is missing too
C10_Witness ==
    /\ pc = "failed"
    /\ exception[1].key = "hostingModel"
    /\ Absent("processPath")
    /\ NotABoolean("stdoutLogEnabled")
    /\ reads = << "section", "hostingModel" >>

====
